---- MODULE Spec2Model ----
(***************************************************************************)
(* Model of src/hl7_parser_service.py: the HL7 v2 tokenizer                *)
(* (parse_hl7_message), the demographic extractor (extract_patient_info)   *)
(* and the command-line flow (main).                                       *)
(*                                                                         *)
(* A Python str is a sequence of one-character strings.  A Python dict is  *)
(* a record; an absent key is a name that is not in the DOMAIN.  Python's  *)
(* None is None in a slot that otherwise holds a str and NoneObj in a slot *)
(* that otherwise holds a dict (TLC cannot compare a tuple with a record). *)
(***************************************************************************)
EXTENDS Integers, Sequences, FiniteSets, TLC

VARIABLES pc, hl7_content, result, patient_info, stdout

vars == <<pc, hl7_content, result, patient_info, stdout>>

None == <<"<None>">>
NoneObj == [isNone |-> TRUE]

(***************************************************************************)
(* Python str primitives used by the service and by the hl7 library.       *)
(***************************************************************************)
Min(a, b) == IF a < b THEN a ELSE b
Max(a, b) == IF a > b THEN a ELSE b

\* str.strip() strips these (the whitespace of the model's alphabet)
WhiteSpace == {" ", "\t", "\n", "\r"}

RECURSIVE LStrip(_)
LStrip(s) ==
    IF s # <<>> /\ Head(s) \in WhiteSpace THEN LStrip(Tail(s)) ELSE s

RECURSIVE RStrip(_)
RStrip(s) ==
    IF s # <<>> /\ s[Len(s)] \in WhiteSpace
    THEN RStrip(SubSeq(s, 1, Len(s) - 1)) ELSE s

\* s.strip()
Strip(s) == RStrip(LStrip(s))

\* s[a:b] for a >= 0; a negative b counts from the end, as Python's slices do
Slice(s, a, b) ==
    LET e == IF b < 0 THEN Max(Len(s) + b, 0) ELSE Min(b, Len(s))
    IN  SubSeq(s, a + 1, e)

\* s[a:]
SliceFrom(s, a) == SubSeq(s, a + 1, Len(s))

\* s.find(c, start) for a one-character c: 0-based index, or -1
Find(s, c, start) ==
    LET hits == {i \in (start + 1)..Len(s) : s[i] = c}
    IN  IF hits = {} THEN -1
        ELSE (CHOOSE i \in hits : \A j \in hits : i <= j) - 1

\* (sub in s) for a str sub of at most one character; '' is in every str
Contains(s, sub) ==
    IF sub = <<>> THEN TRUE ELSE \E i \in 1..Len(s) : s[i] = sub[1]

\* s.split(c) for a one-character c: never empty, '' splits to ['']
RECURSIVE SplitChar(_, _)
SplitChar(s, c) ==
    LET i == Find(s, c, 0)
    IN  IF i = -1 THEN <<s>>
        ELSE <<SubSeq(s, 1, i)>> \o SplitChar(SliceFrom(s, i + 1), c)

\* sep.join(parts)
RECURSIVE Join(_, _)
Join(parts, sep) ==
    IF parts = <<>> THEN <<>>
    ELSE IF Len(parts) = 1 THEN parts[1]
    ELSE parts[1] \o sep \o Join(Tail(parts), sep)

\* the concatenation of a sequence of sequences
RECURSIVE Flatten(_)
Flatten(ss) == IF ss = <<>> THEN <<>> ELSE Head(ss) \o Flatten(Tail(ss))

(***************************************************************************)
(* The hl7 library (python-hl7), as far as hl7.parse, indexing and str()   *)
(* are used at lines 31-78.  A library Segment is the sequence of its      *)
(* Fields; of a Field the service reads str(field) and str(field[0]).      *)
(*                                                                         *)
(* What the service relies on, and the model keeps:                        *)
(*  - the text is stripped and split into segments on carriage return      *)
(*    only, whatever segment_separator lines 24-28 computed;               *)
(*  - element 0 of a Segment is the Field holding the segment code, so     *)
(*    element i is field i of the segment (line 70 reads the code from     *)
(*    segment[0], line 77 numbers the fields from 1);                      *)
(*  - in an MSH segment element 1 is the field separator (MSH-1) and       *)
(*    element 2 the encoding characters (MSH-2), so that element 9 is the  *)
(*    message type (line 45) and element 12 the version (line 48);         *)
(*  - str() of a Field is the text it was split from;                      *)
(*  - a text that does not start with a header code, or is too short to    *)
(*    hold a field separator, makes hl7.parse raise.                       *)
(***************************************************************************)
s_MSH == <<"M", "S", "H">>
s_FHS == <<"F", "H", "S">>
s_BHS == <<"B", "H", "S">>
s_PID == <<"P", "I", "D">>

\* hl7.parser.create_parse_plan: the separators of the message, read from
\* the text between the header code and the next field separator
CreateParsePlan(strmsg) ==
    IF Slice(strmsg, 0, 3) \notin {s_MSH, s_FHS, s_BHS}
    THEN [ok |-> FALSE, error |-> "First segment must be one of MSH, FHS or BHS"]
    ELSE IF Len(strmsg) < 4
    THEN [ok |-> FALSE, error |-> "string index out of range"]
    ELSE LET sep0 == strmsg[4]
             seps == Slice(strmsg, 3, Find(strmsg, sep0, 4))
         IN  IF seps = <<>>
             THEN [ok |-> FALSE, error |-> "list index out of range"]
             ELSE
             [ok |-> TRUE,
              segment |-> "\r",
              field |-> seps[1],
              repetition |-> IF Len(seps) > 2 THEN seps[3] ELSE "~",
              component |-> IF Len(seps) > 1 THEN seps[2] ELSE "^",
              subcomponent |-> IF Len(seps) > 4 THEN seps[5] ELSE "&"]

\* _ParsePlan.applies at segment level: a separator of this level or below
\* occurs in the text
AppliesSegment(text, plan) ==
    \E i \in 1..Len(text) :
        text[i] \in {plan.field, plan.repetition, plan.component,
                     plan.subcomponent}

\* a Field the library built by splitting: str() gives the text back, and
\* element 0 is its first repetition
SplitField(text, plan) ==
    [str |-> text, first |-> SplitChar(text, plan.repetition)[1]]

\* a Field the library built around one raw string
RawField(text) == [str |-> text, first |-> text]

\* hl7.parser._split at segment level.  A segment starting MSH or FHS gets
\* three leading fields (code, field separator, encoding characters) and the
\* rest of the line is split on the field separator.
SplitSegment(text, plan) ==
    IF ~AppliesSegment(text, plan) THEN <<RawField(text)>>
    ELSE IF Slice(text, 0, 3) \in {s_MSH, s_FHS}
    THEN LET sep0 == text[4]
             sep_end_off == Find(text, sep0, 4)
             seps == Slice(text, 4, sep_end_off)
             rest == SliceFrom(text, sep_end_off + 1)
             data == <<RawField(Slice(text, 0, 3)), RawField(<<sep0>>),
                       RawField(seps)>>
         IN  IF rest = <<>> THEN data
             ELSE data \o [k \in 1..Len(SplitChar(rest, plan.field)) |->
                              SplitField(SplitChar(rest, plan.field)[k], plan)]
    ELSE [k \in 1..Len(SplitChar(text, plan.field)) |->
             SplitField(SplitChar(text, plan.field)[k], plan)]

\* hl7.parse(lines): strip, plan, split into segments on carriage return
Hl7Parse(lines) ==
    LET strmsg == Strip(lines)
        plan == CreateParsePlan(strmsg)
    IN  IF ~plan.ok THEN plan
        ELSE [ok |-> TRUE,
              message |-> [k \in 1..Len(SplitChar(strmsg, plan.segment)) |->
                  SplitSegment(SplitChar(strmsg, plan.segment)[k], plan)]]

(***************************************************************************)
(* parse_hl7_message (lines 13-158).                                       *)
(***************************************************************************)
\* lines 91-95 and 113-117: the subcomponents of one component
Subcomponents(comp, subcomponent_separator) ==
    IF Contains(comp, subcomponent_separator)
    THEN [k \in 1..Len(SplitChar(comp, subcomponent_separator[1])) |->
             [value |-> SplitChar(comp, subcomponent_separator[1])[k]]]
    ELSE <<>>

\* mutant: the components numbered from 0 (enumerate's j, not j + 1)
SplitComponents_ZeroBased(text, component_separator, subcomponent_separator) ==
    [j \in 1..Len(SplitChar(text, component_separator[1])) |->
        [componentPosition |-> j - 1,
         value |-> SplitChar(text, component_separator[1])[j],
         subcomponents |->
             Subcomponents(SplitChar(text, component_separator[1])[j],
                           subcomponent_separator)]]

\* lines 88-101 and 110-123: the components of a value that holds the
\* component separator, numbered from 1
SplitComponents(text, component_separator, subcomponent_separator) ==
    [j \in 1..Len(SplitChar(text, component_separator[1])) |->
        [componentPosition |-> j,
         value |-> SplitChar(text, component_separator[1])[j],
         subcomponents |->
             Subcomponents(SplitChar(text, component_separator[1])[j],
                           subcomponent_separator)]]

\* lines 102-108 and 124-131: a value without component separator is one
\* component at position 1, with no subcomponents
PlainComponent(text) ==
    <<[componentPosition |-> 1, value |-> text, subcomponents |-> <<>>]>>

\* lines 86-108: the components of one repetition
RepetitionComponents(rep, component_separator, subcomponent_separator) ==
    IF Contains(rep, component_separator)
    THEN SplitComponents(rep, component_separator, subcomponent_separator)
    ELSE PlainComponent(rep)

\* lines 81-131: field_components of one field value.  The separators are
\* strs of at most one character; an empty component separator is "in"
\* every value and str.split('') raises ValueError at line 88 or 110.
FieldFaults(field_value, component_separator) == component_separator = <<>>

FieldComponents(field_value, component_separator, repetition_separator, subcomponent_separator) ==
    IF Contains(field_value, repetition_separator)
    THEN Flatten([r \in 1..Len(SplitChar(field_value, repetition_separator[1])) |->
             RepetitionComponents(
                 SplitChar(field_value, repetition_separator[1])[r],
                 component_separator, subcomponent_separator)])
    ELSE IF Contains(field_value, component_separator)
    THEN SplitComponents(field_value, component_separator,
                         subcomponent_separator)
    ELSE IF field_value # <<>> THEN PlainComponent(field_value)
    ELSE <<>>

\* lines 133-137: field_data of the field at index i of a library segment
FieldData(segment, i, enc) ==
    [fieldPosition |-> i,
     value |-> segment[i + 1].str,
     components |-> FieldComponents(segment[i + 1].str,
                                    enc.componentSeparator,
                                    enc.repetitionSeparator,
                                    enc.subcomponentSeparator)]

\* mutant: a field with an empty value is not appended
SegmentData_SkipEmpty(segment, enc) ==
    [segmentId |-> segment[1].str,
     fields |-> SelectSeq(
         [i \in 1..(Len(segment) - 1) |-> FieldData(segment, i, enc)],
         LAMBDA f : f.value # <<>>)]

\* lines 70-139: segment_data of one library segment; every index from 1
\* to len(segment) - 1 is appended
SegmentData(segment, enc) ==
    [segmentId |-> segment[1].str,
     fields |-> [i \in 1..(Len(segment) - 1) |-> FieldData(segment, i, enc)]]

\* lines 37-41 and 53-59: the separators, read from elements 0 and 1 of
\* the first segment
Encoding(msh_segment) ==
    LET enc == msh_segment[2].first
    IN  [fieldSeparator |-> msh_segment[1].first,
         componentSeparator |-> Slice(enc, 0, 1),
         repetitionSeparator |->
             IF Len(enc) > 1 THEN Slice(enc, 1, 2) ELSE <<"~">>,
         escapeCharacter |->
             IF Len(enc) > 2 THEN Slice(enc, 2, 3) ELSE <<"\\">>,
         subcomponentSeparator |->
             IF Len(enc) > 3 THEN Slice(enc, 3, 4) ELSE <<"&">>]

\* lines 44-60: message_info; the caller has checked len(msh_segment) > 10
MessageInfo(msh_segment) ==
    [messageType |-> msh_segment[10].str,
     messageControlId |-> msh_segment[11].str,
     messageDate |-> msh_segment[8].str,
     version |-> IF Len(msh_segment) > 12 THEN msh_segment[13].str ELSE None,
     sendingApplication |-> msh_segment[4].str,
     sendingFacility |-> msh_segment[5].str,
     receivingApplication |-> msh_segment[6].str,
     receivingFacility |-> msh_segment[7].str,
     encoding |-> Encoding(msh_segment)]

\* mutant: the except branch hands back what was built before the fault
ParseFailure_WithData(e) ==
    [success |-> FALSE,
     message |-> <<"Erreur lors du parsing du message HL7: ", e>>,
     error |-> e,
     stackTrace |-> <<"Traceback (most recent call last):", e>>,
     data |-> [messageInfo |-> NoneObj, segments |-> <<>>]]

\* lines 149-158: the result of the except branch
ParseFailure(e) ==
    [success |-> FALSE,
     message |-> <<"Erreur lors du parsing du message HL7: ", e>>,
     error |-> e,
     stackTrace |-> <<"Traceback (most recent call last):", e>>]

\* lines 143-147
ParseSuccess(structured_message) ==
    [success |-> TRUE,
     message |-> <<"Message HL7 parse avec succes">>,
     data |-> structured_message]

\* lines 13-158.  The faults: hl7.parse raises; msh_segment[10] does not
\* exist (IndexError at line 45 or 46); str.split('') (ValueError).
parse_hl7_message(content) ==
    LET parsed == Hl7Parse(Strip(content))
    IN  IF ~parsed.ok THEN ParseFailure(parsed.error)
        ELSE LET message == parsed.message
                 msh_segment == message[1]
             IN  IF Len(msh_segment) < 11
                 THEN ParseFailure("list index out of range")
                 ELSE IF \E s \in 1..Len(message) :
                            \E i \in 1..(Len(message[s]) - 1) :
                               FieldFaults(message[s][i + 1].str,
                                   Encoding(msh_segment).componentSeparator)
                 THEN ParseFailure("empty separator")
                 ELSE ParseSuccess(
                     [messageInfo |-> MessageInfo(msh_segment),
                      segments |-> [s \in 1..Len(message) |->
                          SegmentData(message[s], Encoding(msh_segment))]])

(***************************************************************************)
(* extract_patient_info (lines 160-298).                                   *)
(***************************************************************************)
\* mutant: the last PID segment instead of the first
PidSegment_Last(segments) ==
    LET hits == {k \in 1..Len(segments) : segments[k].segmentId = s_PID}
    IN  IF hits = {} THEN NoneObj
        ELSE segments[CHOOSE k \in hits : \A j \in hits : k >= j]

\* line 168: the first segment whose segmentId is 'PID', or None
PidSegment(segments) ==
    LET hits == {k \in 1..Len(segments) : segments[k].segmentId = s_PID}
    IN  IF hits = {} THEN NoneObj
        ELSE segments[CHOOSE k \in hits : \A j \in hits : k <= j]

\* lines 177-181: get_field, the first field at the position, or None
get_field(segment, position) ==
    LET hits == {k \in 1..Len(segment.fields) :
                    segment.fields[k].fieldPosition = position}
    IN  IF hits = {} THEN NoneObj
        ELSE segment.fields[CHOOSE k \in hits : \A j \in hits : k <= j]

\* the value a loop "for c in components: if position == p: x = value"
\* leaves in x: that of the last component at position p, None if there is none
LastValueAt(components, p) ==
    LET hits == {k \in 1..Len(components) :
                    components[k].componentPosition = p}
    IN  IF hits = {} THEN None
        ELSE components[CHOOSE k \in hits : \A j \in hits : k >= j].value

\* mutant: the value is tested for truth, so an empty value gives None
FieldValueOrNone_Falsy(field) ==
    IF field # NoneObj /\ field.value # <<>> THEN field.value ELSE None

\* lines 194-195: the raw value of a field, None when the field is absent
FieldValueOrNone(field) == IF field # NoneObj THEN field.value ELSE None

\* mutant: type and system are looked up in the component's own repetition
\* group (from the component up to the next one at position 1)
Identifier_OwnGroup(component, components) ==
    LET at == CHOOSE k \in 1..Len(components) :
                  /\ components[k] = component
                  /\ \A j \in 1..(k - 1) : components[j] # component
        later == {k \in (at + 1)..Len(components) :
                     components[k].componentPosition = 1}
        stop == IF later = {} THEN Len(components) + 1
                ELSE CHOOSE k \in later : \A j \in later : k <= j
        group == SubSeq(components, at, stop - 1)
    IN  [value |-> component.value,
         type |-> LastValueAt(group, 5),
         system |-> LastValueAt(group, 4)]

\* lines 203-219: the identifier appended for one component at position 1
Identifier(component, components) ==
    [value |-> component.value,
     type |-> LastValueAt(components, 5),
     system |-> LastValueAt(components, 4)]

\* lines 200-219: one identifier per component at position 1 of PID.3
RECURSIVE IdentifiersFrom(_, _)
IdentifiersFrom(rest, components) ==
    IF rest = <<>> THEN <<>>
    ELSE (IF Head(rest).componentPosition = 1
          THEN <<Identifier(Head(rest), components)>> ELSE <<>>)
         \o IdentifiersFrom(Tail(rest), components)

\* mutant: the scan stops at the first identifier
Identifiers_FirstOnly(patient_id_field) ==
    IF patient_id_field # NoneObj
    THEN LET all == IdentifiersFrom(patient_id_field.components,
                                    patient_id_field.components)
         IN  IF all = <<>> THEN <<>> ELSE <<all[1]>>
    ELSE <<>>

Identifiers(patient_id_field) ==
    IF patient_id_field # NoneObj
    THEN IdentifiersFrom(patient_id_field.components,
                         patient_id_field.components)
    ELSE <<>>

\* lines 222-250: one name when PID.5 is present
Names(patient_name_field) ==
    IF patient_name_field # NoneObj
    THEN <<[family |-> LastValueAt(patient_name_field.components, 1),
            given |-> LastValueAt(patient_name_field.components, 2),
            middle |-> LastValueAt(patient_name_field.components, 3),
            prefix |-> LastValueAt(patient_name_field.components, 5),
            suffix |-> LastValueAt(patient_name_field.components, 4)]>>
    ELSE <<>>

\* lines 253-285: one address when PID.11 is present
Addresses(address_field) ==
    IF address_field # NoneObj
    THEN <<[street |-> LastValueAt(address_field.components, 1),
            otherStreet |-> LastValueAt(address_field.components, 2),
            city |-> LastValueAt(address_field.components, 3),
            state |-> LastValueAt(address_field.components, 4),
            postalCode |-> LastValueAt(address_field.components, 5),
            country |-> LastValueAt(address_field.components, 6)]>>
    ELSE <<>>

\* lines 184-285: patient_info built from the PID segment
PatientInfo(pid_segment) ==
    [identifiers |-> Identifiers(get_field(pid_segment, 3)),
     names |-> Names(get_field(pid_segment, 5)),
     birthDate |-> FieldValueOrNone(get_field(pid_segment, 7)),
     gender |-> FieldValueOrNone(get_field(pid_segment, 8)),
     addresses |-> Addresses(get_field(pid_segment, 11))]

\* lines 170-174
PidNotFound ==
    [success |-> FALSE,
     message |-> <<"Segment PID non trouve dans le message HL7">>]

\* lines 293-298
ExtractFailure(e) ==
    [success |-> FALSE,
     message |-> <<"Erreur lors de l'extraction des informations patient: ", e>>,
     error |-> e]

\* line 165: parsed_message.get("data", {}).get("segments", []); .get on a
\* data that is None raises AttributeError, caught at line 293
extract_patient_info(parsed_message) ==
    IF "data" \in DOMAIN parsed_message /\ parsed_message.data = NoneObj
    THEN ExtractFailure("'NoneType' object has no attribute 'get'")
    ELSE LET segments == IF "data" \in DOMAIN parsed_message
                            /\ "segments" \in DOMAIN parsed_message.data
                         THEN parsed_message.data.segments ELSE <<>>
             pid_segment == PidSegment(segments)
         IN  IF pid_segment = NoneObj THEN PidNotFound
             ELSE [success |-> TRUE,
                   message |-> <<"Informations patient extraites avec succes">>,
                   data |-> PatientInfo(pid_segment)]

\* mutant: the whole result of the extractor instead of its data
GetData_Whole(d) == d

\* dict.get("data"): None when the key is absent
GetData(d) == IF "data" \in DOMAIN d THEN d.data ELSE NoneObj

\* mutant: line 165 with setdefault in place of get, which stores the
\* default under "data" in an argument that has no such key
ParsedMessageAfter_SetDefault(parsed_message) ==
    [k \in DOMAIN parsed_message \cup {"data"} |->
        IF k \in DOMAIN parsed_message THEN parsed_message[k]
        ELSE <<>>]

\* lines 165-298: the argument once extract_patient_info has returned.  The
\* function reads it with get only (lines 165, 168, 179, 194-195, 201-208,
\* 229-231, 261-263) and stores nothing in it, on any path.
ParsedMessageAfter(parsed_message) == parsed_message

(***************************************************************************)
(* The inputs: raw messages read by main, and tokenized messages handed to *)
(* extract_patient_info by a caller of the module.                         *)
(***************************************************************************)
\* the largest field number of a generated header line
MaxHdrFields == 12
\* the largest field number of a generated PID line
MaxPidFields == 11

StdEnc == <<"^", "~", "\\", "&">>

\* the value of header field k (3 and up)
HdrField(k) ==
    CASE k = 3 -> <<"A", "p">>
      [] k = 4 -> <<"F">>
      [] k = 5 -> <<"B">>
      [] k = 6 -> <<"G">>
      [] k = 7 -> <<"2", "0">>
      [] k = 8 -> <<>>
      [] k = 9 -> <<"A", "^", "1">>
      [] k = 10 -> <<"M", "7">>
      [] k = 11 -> <<"P">>
      [] k = 12 -> <<"2", ".", "5">>
      [] OTHER -> <<"Z">>

\* a header line: code, field separator, encoding characters, fields 3..n
Header(code, sep0, enc, n) ==
    IF n = 0 THEN code
    ELSE IF n = 1 THEN code \o <<sep0>>
    ELSE code \o <<sep0>> \o enc
         \o Flatten([k \in 1..(n - 2) |-> <<sep0>> \o HdrField(k + 2)])

StdHeader == Header(s_MSH, "|", StdEnc, 12)

Encs == {StdEnc, <<"^">>, <<"^", "~">>, <<"^", "~", "\\">>, <<>>,
         <<"$", "*", "!", "@">>}

Headers ==
    {Header(code, sep0, enc, n) :
        code \in {s_MSH}, sep0 \in {"|", "#"}, enc \in Encs,
        n \in 0..MaxHdrFields}

\* field values of generated PID lines
FieldValues ==
    {<<>>,
     <<"A">>,
     <<"X", "&", "Y">>,
     <<"A", "~", "B", "~", "C">>,
     <<"D", "^", "J", "^", "M">>,
     <<"1", "^", "^", "^", "H", "^", "R">>,
     <<"1", "^", "^", "^", "A", "^", "R", "~", "2", "^", "^", "^", "B", "^", "I">>,
     <<"D", "^", "J", "~", "S", "^", "K">>,
     <<"1", "^", "^", "C", "^", "I", "^", "6", "^", "U">>,
     <<"A", "~", "~", "B">>,
     <<"X", "&", "Y", "^", "Z">>}

BirthValues == {<<>>, <<"1", "9", "8", "0">>}

\* a PID line with fields 1..n: v3 at 3, v5 at 5 and 11, v7 at 7 and 8
PidField(i, v3, v5, v7) ==
    CASE i = 1 -> <<"1">>
      [] i = 3 -> v3
      [] i \in {5, 11} -> v5
      [] i \in {7, 8} -> v7
      [] OTHER -> <<>>

SegLine(code, sep0, n, v3, v5, v7) ==
    Join(<<code>> \o [i \in 1..n |-> PidField(i, v3, v5, v7)], <<sep0>>)

PidLines ==
    {SegLine(s_PID, "|", n, v3, v5, v7) :
        n \in 0..MaxPidFields, v3 \in FieldValues, v5 \in FieldValues,
        v7 \in BirthValues}

Scenario1 ==
    <<"M", "S", "H", "|", "^", "~", "\\", "&", "|", "A", "p", "p", "A", "|",
    "F", "a", "c", "A", "|", "A", "p", "p", "B", "|", "F", "a", "c", "B",
    "|", "2", "0", "2", "3", "0", "1", "0", "1", "1", "2", "0", "0", "0",
    "0", "|", "|", "A", "D", "T", "^", "A", "0", "1", "|", "M", "S", "G",
    "0", "0", "0", "0", "1", "|", "P", "|", "2", ".", "5", "\r", "P", "I",
    "D", "|", "1", "|", "|", "1", "2", "3", "4", "5", "^", "^", "^", "H",
    "O", "S", "P", "^", "M", "R", "|", "|", "D", "O", "E", "^", "J", "O",
    "H", "N", "^", "M", "|", "|", "1", "9", "8", "0", "0", "1", "0", "1",
    "|", "M", "|", "|", "|", "1", "2", "3", " ", "M", "A", "I", "N", " ",
    "S", "T", "^", "^", "S", "P", "R", "I", "N", "G", "F", "I", "E", "L",
    "D", "^", "I", "L", "^", "6", "2", "7", "0", "1", "^", "U", "S", "A">>

CR == <<"\r">>
LF == <<"\n">>
CRLF == <<"\r", "\n">>

RichPid == SegLine(s_PID, "|", 11, <<"1", "^", "^", "^", "H", "^", "R">>,
                   <<"D", "^", "J", "^", "M">>, <<"1", "9", "8", "0">>)
PlainPid == SegLine(s_PID, "|", 8, <<"A", "~", "B">>, <<"X", "&", "Y">>, <<>>)
OtherSeg == SegLine(<<"O", "B", "X">>, "|", 3, <<"X", "&", "Y">>, <<>>, <<>>)

\* one PID segment after the standard header
OnePidInputs == {StdHeader \o CR \o l : l \in PidLines}

\* the three line-ending styles, and surrounding whitespace
LineEndingInputs ==
    {StdHeader \o ls \o l \o ls2 \o t :
        ls \in {CR, LF, CRLF}, l \in {RichPid, PlainPid},
        ls2 \in {CR, LF, CRLF}, t \in {<<>>, OtherSeg, <<" ">>}}
    \cup {<<" ", "\n">> \o StdHeader \o CR \o RichPid \o <<"\r", "\n">>}

\* several segments: two PID segments, a PID after another segment, no PID,
\* an empty line, a later segment that starts with a header code, and a PID
\* segment after a header that is too short
MultiSegmentInputs ==
    {StdHeader \o CR \o a \o CR \o b :
        a \in {RichPid, PlainPid, OtherSeg, <<>>, s_MSH \o <<"~">>,
               <<"P", "I", "D", "2", "|", "A">>},
        b \in {RichPid, PlainPid, OtherSeg}}
    \cup {Header(s_MSH, "|", StdEnc, n) \o CR \o RichPid : n \in {2, 5, 9, 10}}

\* a header with another field separator, followed by one segment.  Every
\* generated message starts with MSH or with no header code at all: batch
\* and file headers (BHS, FHS) are outside the inputs.
OtherHeaderInputs ==
    {Header(s_MSH, "#", StdEnc, 12) \o CR
        \o SegLine(s_PID, "#", 11, v, v, <<"M">>) : v \in FieldValues}

\* inputs hl7.parse rejects
BadInputs ==
    {<<>>, <<" ", "\n">>, RichPid, <<"M", "S">>, <<"X">>,
     RichPid \o CR \o StdHeader}

Inputs ==
    Headers \cup OnePidInputs \cup LineEndingInputs \cup MultiSegmentInputs
    \cup OtherHeaderInputs \cup BadInputs \cup {Scenario1}

\* A tokenized message as a caller of the module may hand it to the
\* extractor: the segments of a text split on the standard delimiters.
StdEncoding ==
    [fieldSeparator |-> <<"|">>, componentSeparator |-> <<"^">>,
     repetitionSeparator |-> <<"~">>, escapeCharacter |-> <<"\\">>,
     subcomponentSeparator |-> <<"&">>]

Tokenized(lines) ==
    [success |-> TRUE,
     message |-> <<"Message HL7 parse avec succes">>,
     data |-> [messageInfo |-> [encoding |-> StdEncoding],
               segments |-> [k \in 1..Len(lines) |->
                   SegmentData(SplitSegment(lines[k],
                                   CreateParsePlan(StdHeader)), StdEncoding)]]]

TokenizedInputs ==
    {Tokenized(<<StdHeader, SegLine(s_PID, "|", n, v3, v5, <<"M">>)>>) :
        n \in {2, 5, MaxPidFields}, v3 \in FieldValues, v5 \in FieldValues}
    \cup {Tokenized(<<>>), Tokenized(<<StdHeader>>),
          Tokenized(<<StdHeader, RichPid, PlainPid>>),
          Tokenized(<<StdHeader, OtherSeg, PlainPid, RichPid>>),
          [success |-> TRUE, message |-> <<"no data">>],
          [success |-> FALSE, message |-> <<"data is None">>,
           data |-> NoneObj]}

(***************************************************************************)
(* main (lines 300-341) and a direct call of extract_patient_info.         *)
(***************************************************************************)
NoValue == [unset |-> TRUE]

Init ==
    /\ pc = "start"
    /\ hl7_content = None
    /\ result = NoValue
    /\ patient_info = NoValue
    /\ stdout = <<>>

\* lines 308-309 and 327: the text is read from the file or from stdin
MainRead ==
    /\ pc = "start"
    /\ \E content \in Inputs : hl7_content' = content
    /\ pc' = "read"
    /\ UNCHANGED <<result, patient_info, stdout>>

\* lines 318-323 and 336-341: reading raised; one error document is printed
MainReadFail ==
    /\ pc = "start"
    /\ \E msg \in {"Erreur lors de la lecture du fichier: ",
                   "Erreur lors du traitement de l'entree standard: "} :
          stdout' = Append(stdout,
              [success |-> FALSE,
               message |-> <<msg, "read error">>,
               error |-> "read error"])
    /\ pc' = "done"
    /\ UNCHANGED <<hl7_content, result, patient_info>>

\* lines 310 and 328
MainParse ==
    /\ pc = "read"
    /\ result' = parse_hl7_message(hl7_content)
    /\ pc' = "parsed"
    /\ UNCHANGED <<hl7_content, patient_info, stdout>>

\* lines 313-315 and 331-333: only when the parse succeeded
MainExtract ==
    /\ pc = "parsed"
    /\ result.success
    /\ patient_info' = extract_patient_info(result)
    /\ result' = [k \in DOMAIN ParsedMessageAfter(result)
                          \cup {"patientInfo"} |->
                     IF k = "patientInfo"
                     THEN GetData(extract_patient_info(result))
                     ELSE ParsedMessageAfter(result)[k]]
    /\ pc' = "extracted"
    /\ UNCHANGED <<hl7_content, stdout>>

\* lines 317 and 335
MainPrint ==
    /\ \/ pc = "parsed" /\ ~result.success
       \/ pc = "extracted"
    /\ stdout' = Append(stdout, result)
    /\ pc' = "done"
    /\ UNCHANGED <<hl7_content, result, patient_info>>

\* a caller of the module holds a tokenized message
CallerBuild ==
    /\ pc = "start"
    /\ \E parsed_message \in TokenizedInputs : result' = parsed_message
    /\ pc' = "built"
    /\ UNCHANGED <<hl7_content, patient_info, stdout>>

\* and hands it to the extractor: result is the message after the call
CallExtract ==
    /\ pc = "built"
    /\ patient_info' = extract_patient_info(result)
    /\ result' = ParsedMessageAfter(result)
    /\ pc' = "returned"
    /\ UNCHANGED <<hl7_content, stdout>>

Next ==
    \/ MainRead
    \/ MainReadFail
    \/ MainParse
    \/ MainExtract
    \/ MainPrint
    \/ CallerBuild
    \/ CallExtract

Spec == Init /\ [][Next]_vars

(***************************************************************************)
(* States the claims speak about.                                          *)
(***************************************************************************)
\* parse_hl7_message has returned to main: result holds what it returned
\* (with the patientInfo key once main has added it)
ParseReturned == pc \in {"parsed", "extracted", "done"} /\ hl7_content # None

ParseSucceeded == ParseReturned /\ result.success

\* extract_patient_info has returned: patient_info holds what it returned
\* and result the message it was given
ExtractReturned == patient_info # NoValue

\* the segment list the extractor was given
ArgSegments ==
    IF "data" \in DOMAIN result /\ result.data # NoneObj
    THEN result.data.segments ELSE <<>>

\* the text of the message as hl7.parse sees it, and its lines
WireText == Strip(hl7_content)
WireLines == SplitChar(WireText, "\r")

\* the header's encoding-characters field: the text between the field
\* separator that follows the header code and the next field separator
WireEncodingField ==
    LET line == WireLines[1]
        stop == Find(line, line[4], 4)
    IN  IF stop = -1 THEN SliceFrom(line, 4) ELSE Slice(line, 4, stop)

\* the j-th piece of a value split on separator c, None when there is none
PieceOrNone(value, c, j) ==
    IF j <= Len(SplitChar(value, c)) THEN SplitChar(value, c)[j] ELSE None

(***************************************************************************)
(* C1: for every message parsed successfully, messageInfo.encoding holds   *)
(* as fieldSeparator the character that follows the 3-letter header code,  *)
(* and as component, repetition, escape and subcomponent separators the    *)
(* characters 1 to 4 of the header's encoding-characters field ('~', '\'   *)
(* and '&' standing in for the last three when the field is too short).    *)
(***************************************************************************)
C1_DelimitersFromHeader ==
    ParseSucceeded =>
        LET enc == result.data.messageInfo.encoding
            chars == WireEncodingField
        IN  /\ enc.fieldSeparator = <<WireLines[1][4]>>
            /\ enc.componentSeparator = Slice(chars, 0, 1)
            /\ enc.repetitionSeparator =
                   IF Len(chars) > 1 THEN Slice(chars, 1, 2) ELSE <<"~">>
            /\ enc.escapeCharacter =
                   IF Len(chars) > 2 THEN Slice(chars, 2, 3) ELSE <<"\\">>
            /\ enc.subcomponentSeparator =
                   IF Len(chars) > 3 THEN Slice(chars, 3, 4) ELSE <<"&">>

(***************************************************************************)
(* C2: end to end, for a message with the standard header delimiters and a *)
(* PID segment whose fields 5 and 11 hold no repetition separator, the     *)
(* extractor returns exactly one name and one address whose attributes are *)
(* the '^'-separated components of PID field 5 (family, given, middle,     *)
(* suffix, prefix) and of PID field 11 (street, otherStreet, city, state,  *)
(* postalCode, country), an attribute being unset when its component does  *)
(* not exist.                                                              *)
(***************************************************************************)
StdHeaderStart == <<"M", "S", "H", "|", "^", "~", "\\", "&", "|">>

\* the fields of the first wire line that is a PID segment (<<>> if none)
WirePidFields ==
    LET hits == {k \in 1..Len(WireLines) :
                    Slice(WireLines[k], 0, 4) = <<"P", "I", "D", "|">>}
    IN  IF hits = {} THEN <<>>
        ELSE Tail(SplitChar(WireLines[CHOOSE k \in hits :
                                \A j \in hits : k <= j], "|"))

C2_Case ==
    /\ ParseSucceeded
    /\ ExtractReturned
    /\ Slice(WireText, 0, 9) = StdHeaderStart
    /\ Len(WirePidFields) >= 11
    /\ WirePidFields[5] # <<>> /\ ~Contains(WirePidFields[5], <<"~">>)
    /\ WirePidFields[11] # <<>> /\ ~Contains(WirePidFields[11], <<"~">>)

C2_EndToEndNameAndAddress ==
    C2_Case =>
        /\ patient_info.success
        /\ patient_info.data.names =
               <<[family |-> PieceOrNone(WirePidFields[5], "^", 1),
                  given |-> PieceOrNone(WirePidFields[5], "^", 2),
                  middle |-> PieceOrNone(WirePidFields[5], "^", 3),
                  suffix |-> PieceOrNone(WirePidFields[5], "^", 4),
                  prefix |-> PieceOrNone(WirePidFields[5], "^", 5)]>>
        /\ patient_info.data.addresses =
               <<[street |-> PieceOrNone(WirePidFields[11], "^", 1),
                  otherStreet |-> PieceOrNone(WirePidFields[11], "^", 2),
                  city |-> PieceOrNone(WirePidFields[11], "^", 3),
                  state |-> PieceOrNone(WirePidFields[11], "^", 4),
                  postalCode |-> PieceOrNone(WirePidFields[11], "^", 5),
                  country |-> PieceOrNone(WirePidFields[11], "^", 6)]>>

(***************************************************************************)
(* C3: parse_hl7_message never partially succeeds.  Its result is either   *)
(* success with data (messageInfo and one entry per segment of the         *)
(* message) and neither error nor stackTrace, or failure with error and    *)
(* stackTrace (both carrying the exception text) and no data key.  Empty   *)
(* input, a text that does not start with a header, and a header too short *)
(* for the fixed-position metadata give the failure form.                  *)
(***************************************************************************)
\* the number of occurrences of character c in s
Count(s, c) == Cardinality({i \in 1..Len(s) : s[i] = c})

\* what parse_hl7_message returned (main may have added patientInfo since)
ParseKeys == DOMAIN result \ {"patientInfo"}

\* the header line is too short to hold the message control ID (field 10)
HeaderTooShort ==
    /\ Len(WireText) >= 4
    /\ Count(WireLines[1], WireLines[1][4]) < 9

C3_ParseNeverPartial ==
    ParseReturned =>
        /\ result.success \in BOOLEAN
        /\ result.success =>
              /\ ParseKeys = {"success", "message", "data"}
              /\ DOMAIN result.data = {"messageInfo", "segments"}
              /\ Len(result.data.segments) = Len(WireLines)
        /\ ~result.success =>
              /\ ParseKeys = {"success", "message", "error", "stackTrace"}
              /\ result.message[2] = result.error
              /\ result.stackTrace[2] = result.error
        /\ WireText = <<>> => ~result.success
        /\ Slice(WireText, 0, 3) \notin {s_MSH, s_FHS, s_BHS}
              => ~result.success
        /\ HeaderTooShort => ~result.success

C3_Witness ==
    /\ ParseReturned
    /\ ~result.success
    /\ Slice(WireText, 0, 3) = s_MSH
    /\ Len(WireLines) > 1
    /\ HeaderTooShort

(***************************************************************************)
(* C4: the extractor applied to a tokenized message that has no segment    *)
(* with identifier PID (an empty segment list included) returns success    *)
(* false with the segment-not-found message and no data; when a PID        *)
(* segment exists, the first one in segment order is the one used.         *)
(***************************************************************************)
PidIndexes == {k \in 1..Len(ArgSegments) : ArgSegments[k].segmentId = s_PID}

FirstPidIndex == CHOOSE k \in PidIndexes : \A j \in PidIndexes : k <= j

\* the argument is a tokenized message (its data, if any, is a dict)
ArgTokenized == ~("data" \in DOMAIN result /\ result.data = NoneObj)

C4_NoPidNoData ==
    (ExtractReturned /\ ArgTokenized) =>
        /\ PidIndexes = {} =>
              /\ patient_info.success = FALSE
              /\ patient_info.message =
                     <<"Segment PID non trouve dans le message HL7">>
              /\ DOMAIN patient_info = {"success", "message"}
        /\ PidIndexes # {} =>
              /\ patient_info.success
              /\ patient_info.data = PatientInfo(ArgSegments[FirstPidIndex])

C4_Witness ==
    /\ ExtractReturned
    /\ ArgTokenized
    /\ Len(ArgSegments) >= 2
    /\ PidIndexes = {}
    /\ ~patient_info.success
    /\ "data" \notin DOMAIN patient_info

(***************************************************************************)
(* C5: in every successfully parsed message the componentPosition values   *)
(* of a field's components are runs 1..N, one run per repetition group,    *)
(* each starting again at 1; a value made only of repetitions (no          *)
(* component separator) gives one component per repetition group, each at  *)
(* position 1.                                                             *)
(***************************************************************************)
\* the separators the parse reported, which are those it split with
Enc == result.data.messageInfo.encoding

\* every field of the parsed message, as <<segment index, field index>>
FieldIndexes ==
    UNION {{<<s, f>> : f \in 1..Len(result.data.segments[s].fields)} :
              s \in 1..Len(result.data.segments)}

FieldAt(sf) == result.data.segments[sf[1]].fields[sf[2]]

PositionRuns(field) ==
    LET comps == field.components
        starts == {k \in 1..Len(comps) : comps[k].componentPosition = 1}
        groups == SplitChar(field.value, Enc.repetitionSeparator[1])
    IN  /\ comps # <<>> => comps[1].componentPosition = 1
        /\ \A k \in 2..Len(comps) :
              \/ comps[k].componentPosition = 1
              \/ comps[k].componentPosition
                     = comps[k - 1].componentPosition + 1
        /\ Contains(field.value, Enc.repetitionSeparator)
              => Cardinality(starts) = Len(groups)
        /\ ~Contains(field.value, Enc.repetitionSeparator)
              => Cardinality(starts) <= 1
        /\ (/\ Contains(field.value, Enc.repetitionSeparator)
            /\ ~Contains(field.value, Enc.componentSeparator))
              => /\ Len(comps) = Len(groups)
                 /\ \A k \in 1..Len(comps) :
                       /\ comps[k].componentPosition = 1
                       /\ comps[k].value = groups[k]

C5_ComponentPositionRuns ==
    ParseSucceeded => \A sf \in FieldIndexes : PositionRuns(FieldAt(sf))

\* the value A~B~C has given three components at position 1, and another
\* field of the message a run 1, 2
C5_Witness ==
    /\ ParseSucceeded
    /\ \E sf \in FieldIndexes :
          /\ FieldAt(sf).value = <<"A", "~", "B", "~", "C">>
          /\ Len(FieldAt(sf).components) = 3
          /\ \A k \in 1..3 : FieldAt(sf).components[k].componentPosition = 1
    /\ \E sf \in FieldIndexes :
          /\ Len(FieldAt(sf).components) = 2
          /\ FieldAt(sf).components[2].componentPosition = 2

(***************************************************************************)
(* C6: in every successfully parsed message the k-th entry of a segment's  *)
(* fields has fieldPosition k, in wire order without gap; a field whose    *)
(* raw value is empty is still an entry at its own position, with an empty *)
(* components list, so later fields keep their wire positions.             *)
(***************************************************************************)
\* the wire fields of line k: the pieces after the segment code.  The
\* header line is left out (its first two fields are the separators).
WireFields(k) == Tail(SplitChar(WireLines[k], WireLines[1][4]))

C6_FieldPositions ==
    ParseSucceeded =>
        \A s \in 1..Len(result.data.segments) :
            LET fields == result.data.segments[s].fields
            IN  /\ \A k \in 1..Len(fields) :
                      /\ fields[k].fieldPosition = k
                      /\ fields[k].value = <<>>
                            => fields[k].components = <<>>
                /\ Slice(WireLines[s], 0, 3) \notin {s_MSH, s_FHS, s_BHS}
                      => /\ Len(fields) = Len(WireFields(s))
                         /\ \A k \in 1..Len(fields) :
                               fields[k].value = WireFields(s)[k]

C6_Witness ==
    /\ ParseSucceeded
    /\ \E s \in 2..Len(result.data.segments) :
          LET fields == result.data.segments[s].fields
          IN  /\ Len(fields) >= 3
              /\ fields[2].value = <<>>
              /\ fields[2].components = <<>>
              /\ fields[3].value # <<>>
              /\ fields[3].fieldPosition = 3

(***************************************************************************)
(* C7 (as claimed): whenever the extractor succeeds, each of identifiers,  *)
(* names and addresses holds 0 or 1 entries.                               *)
(***************************************************************************)
C7_ListsAtMostOne ==
    (ExtractReturned /\ patient_info.success) =>
        /\ Len(patient_info.data.identifiers) <= 1
        /\ Len(patient_info.data.names) <= 1
        /\ Len(patient_info.data.addresses) <= 1

(***************************************************************************)
(* C7 (amended): whenever the extractor succeeds, names and addresses hold *)
(* 0 or 1 entries, and identifiers holds one entry per component at        *)
(* position 1 of PID field 3 (none when the field is absent), which can be *)
(* more than one.                                                          *)
(***************************************************************************)
\* the field at a position of the PID segment the extractor used
PidFieldsAt(position) ==
    {k \in 1..Len(ArgSegments[FirstPidIndex].fields) :
        ArgSegments[FirstPidIndex].fields[k].fieldPosition = position}

PidFieldAt(position) ==
    ArgSegments[FirstPidIndex].fields[CHOOSE k \in PidFieldsAt(position) :
                                         \A j \in PidFieldsAt(position) : k <= j]

PositionOneCount(position) ==
    IF PidFieldsAt(position) = {} THEN 0
    ELSE Cardinality({k \in 1..Len(PidFieldAt(position).components) :
            PidFieldAt(position).components[k].componentPosition = 1})

C7_NamesAddressesAtMostOne ==
    (ExtractReturned /\ patient_info.success) =>
        /\ Len(patient_info.data.identifiers) = PositionOneCount(3)
        /\ Len(patient_info.data.names) <= 1
        /\ Len(patient_info.data.addresses) <= 1

C7_Witness ==
    /\ ExtractReturned
    /\ patient_info.success
    /\ Len(patient_info.data.identifiers) = 2
    /\ Len(patient_info.data.names) = 1
    /\ PositionOneCount(5) = 2

(***************************************************************************)
(* C8: the birthDate (gender) of the record is unset when the PID segment  *)
(* has no field at position 7 (8), and is the field's raw value, the empty *)
(* string included, when it has one; names (addresses) is empty exactly    *)
(* when field 5 (11) is not in the PID segment's field list.               *)
(***************************************************************************)
C8_MissingVersusEmpty ==
    (ExtractReturned /\ patient_info.success) =>
        /\ patient_info.data.birthDate =
               IF PidFieldsAt(7) = {} THEN None ELSE PidFieldAt(7).value
        /\ patient_info.data.gender =
               IF PidFieldsAt(8) = {} THEN None ELSE PidFieldAt(8).value
        /\ PidFieldsAt(7) # {} => patient_info.data.birthDate # None
        /\ PidFieldsAt(8) # {} => patient_info.data.gender # None
        /\ patient_info.data.names = <<>> <=> PidFieldsAt(5) = {}
        /\ patient_info.data.addresses = <<>> <=> PidFieldsAt(11) = {}

\* field 7 is present and empty, field 8 and field 11 are absent
C8_Witness ==
    /\ ExtractReturned
    /\ patient_info.success
    /\ PidFieldsAt(7) # {}
    /\ patient_info.data.birthDate = <<>>
    /\ PidFieldsAt(8) = {}
    /\ patient_info.data.gender = None
    /\ patient_info.data.names # <<>>
    /\ patient_info.data.addresses = <<>>

(***************************************************************************)
(* C9: in main, the printed document carries patientInfo only when the     *)
(* parse succeeded.  After a failed parse the extractor is never called    *)
(* and the document has no patientInfo; after a successful parse the       *)
(* extractor is called, the top-level success stays true and patientInfo   *)
(* is the extracted record, or null when extraction failed.  Exactly one   *)
(* document is printed per run, read failures included.                    *)
(***************************************************************************)
C9_PatientInfoOnlyAfterParse ==
    /\ Len(stdout) = IF pc = "done" THEN 1 ELSE 0
    /\ (pc = "done" /\ hl7_content = None) =>
          /\ ~stdout[1].success
          /\ "patientInfo" \notin DOMAIN stdout[1]
          /\ patient_info = NoValue
    /\ (pc \in {"parsed", "extracted", "done"} /\ hl7_content # None) =>
          /\ patient_info # NoValue => result.success /\ pc # "parsed"
          /\ "patientInfo" \in DOMAIN result <=> patient_info # NoValue
    /\ (pc = "done" /\ hl7_content # None) =>
          /\ stdout[1] = result
          /\ ~result.success =>
                /\ patient_info = NoValue
                /\ "patientInfo" \notin DOMAIN stdout[1]
          /\ result.success =>
                /\ patient_info # NoValue
                /\ stdout[1].success = TRUE
                /\ "data" \in DOMAIN stdout[1]
                /\ "patientInfo" \in DOMAIN stdout[1]
                /\ stdout[1].patientInfo =
                       IF patient_info.success THEN patient_info.data
                       ELSE NoneObj

\* a document printed with success true and a null patientInfo
C9_Witness ==
    /\ pc = "done"
    /\ hl7_content # None
    /\ stdout[1].success
    /\ ~patient_info.success
    /\ stdout[1].patientInfo = NoneObj

(***************************************************************************)
(* C10: in every successfully parsed message, for every emitted component  *)
(* in every branch, the subcomponents list is the ordered list of pieces   *)
(* of the value split on the subcomponent separator when the value holds   *)
(* that separator, and is empty otherwise.                                 *)
(***************************************************************************)
SubcomponentsSplit(comp) ==
    IF Contains(comp.value, Enc.subcomponentSeparator)
    THEN LET pieces == SplitChar(comp.value, Enc.subcomponentSeparator[1])
         IN  /\ Len(comp.subcomponents) = Len(pieces)
             /\ \A k \in 1..Len(pieces) :
                   comp.subcomponents[k].value = pieces[k]
    ELSE comp.subcomponents = <<>>

C10_SubcomponentsEveryBranch ==
    ParseSucceeded =>
        \A sf \in FieldIndexes :
            \A k \in 1..Len(FieldAt(sf).components) :
                SubcomponentsSplit(FieldAt(sf).components[k])

(***************************************************************************)
(* C11: in every successfully parsed message, a field whose raw value      *)
(* holds the repetition separator gets a component at position 1 from a    *)
(* repetition group only if the group is non-empty: the number of          *)
(* components at position 1 is the number of non-empty groups, and an      *)
(* empty group (the middle one of 'A~~B') emits no component.              *)
(***************************************************************************)
\* the repetition groups of a field's raw value
RepetitionGroups(field) ==
    SplitChar(field.value, Enc.repetitionSeparator[1])

\* the components of a field that open a repetition group
GroupStarts(field) ==
    {k \in 1..Len(field.components) :
        field.components[k].componentPosition = 1}

C11_EmptyGroupEmitsNothing ==
    ParseSucceeded =>
        \A sf \in FieldIndexes :
            Contains(FieldAt(sf).value, Enc.repetitionSeparator) =>
                /\ Cardinality(GroupStarts(FieldAt(sf))) =
                       Cardinality({g \in 1..Len(RepetitionGroups(FieldAt(sf))) :
                                       RepetitionGroups(FieldAt(sf))[g] # <<>>})
                /\ ~Contains(FieldAt(sf).value, Enc.componentSeparator) =>
                       \A k \in 1..Len(FieldAt(sf).components) :
                           FieldAt(sf).components[k].value # <<>>

(***************************************************************************)
(* C12: when PID field 5 of the message given to the extractor holds       *)
(* several repetition groups, the extractor returns exactly one name, and  *)
(* its family, given, middle, suffix and prefix are the components at      *)
(* positions 1 to 5 of the first repetition group; no component of a later *)
(* group contributes to or overwrites an attribute.                        *)
(***************************************************************************)
\* the value of the component at position p within the first repetition
\* group of a field (the components before the second one at position 1)
FirstGroupValueAt(field, p) ==
    LET later == GroupStarts(field) \ {1}
        stop == IF later = {} THEN Len(field.components) + 1
                ELSE CHOOSE k \in later : \A j \in later : k <= j
        hits == {k \in 1..(stop - 1) :
                    field.components[k].componentPosition = p}
    IN  IF hits = {} THEN None
        ELSE field.components[CHOOSE k \in hits : TRUE].value

C12_Case ==
    /\ ExtractReturned
    /\ patient_info.success
    /\ PidFieldsAt(5) # {}
    /\ Cardinality(GroupStarts(PidFieldAt(5))) >= 2

C12_NameFromFirstRepetition ==
    C12_Case =>
        patient_info.data.names =
            <<[family |-> FirstGroupValueAt(PidFieldAt(5), 1),
               given |-> FirstGroupValueAt(PidFieldAt(5), 2),
               middle |-> FirstGroupValueAt(PidFieldAt(5), 3),
               suffix |-> FirstGroupValueAt(PidFieldAt(5), 4),
               prefix |-> FirstGroupValueAt(PidFieldAt(5), 5)]>>

(***************************************************************************)
(* C13: whenever the extractor succeeds on a message whose PID segment has *)
(* a field 3, identifiers holds exactly one entry per component of that    *)
(* field at position 1, in component order, with that component's value;   *)
(* its type (system) is the value of a component at position 5 (4) found   *)
(* anywhere in the field, and is unset exactly when the field has no       *)
(* component at position 5 (4); all identifiers of the field carry the     *)
(* same type and the same system.                                          *)
(***************************************************************************)
\* the index of the j-th component at position 1 of a field
NthStart(field, j) ==
    CHOOSE k \in GroupStarts(field) :
        Cardinality({i \in GroupStarts(field) : i <= k}) = j

\* the values of the components of a field at position p
ValuesAt(field, p) ==
    {field.components[k].value :
        k \in {i \in 1..Len(field.components) :
                  field.components[i].componentPosition = p}}

C13_Case ==
    /\ ExtractReturned
    /\ patient_info.success
    /\ PidFieldsAt(3) # {}

C13_IdentifiersFieldWideScan ==
    C13_Case =>
        LET field == PidFieldAt(3)
            ids == patient_info.data.identifiers
        IN  /\ Len(ids) = Cardinality(GroupStarts(field))
            /\ \A j \in 1..Len(ids) :
                  /\ DOMAIN ids[j] = {"value", "type", "system"}
                  /\ ids[j].value = field.components[NthStart(field, j)].value
                  /\ ids[j].type = None <=> ValuesAt(field, 5) = {}
                  /\ ids[j].type # None => ids[j].type \in ValuesAt(field, 5)
                  /\ ids[j].system = None <=> ValuesAt(field, 4) = {}
                  /\ ids[j].system # None
                        => ids[j].system \in ValuesAt(field, 4)
                  /\ ids[j].type = ids[1].type
                  /\ ids[j].system = ids[1].system

\* two repetitions with different types and systems: both identifiers carry
\* those of the second repetition; and a field without position 4 or 5
C13_Witness ==
    /\ C13_Case
    /\ Cardinality(ValuesAt(PidFieldAt(3), 5)) = 2
    /\ Cardinality(ValuesAt(PidFieldAt(3), 4)) = 2
    /\ Len(patient_info.data.identifiers) = 2
    /\ patient_info.data.identifiers[1].value = <<"1">>
    /\ patient_info.data.identifiers[1].type = <<"I">>
    /\ patient_info.data.identifiers[1].system = <<"B">>
    /\ patient_info.data.identifiers[2].value = <<"2">>
    /\ patient_info.data.identifiers[2].type = <<"I">>

(***************************************************************************)
(* C14: the segment separator is determined by priority CRLF, then LF when *)
(* no CR is present, then CR, and it is the separator the message is split *)
(* with: a message whose segments are separated by CR, by LF only or by    *)
(* CRLF gives the same outcome and the same segments (count, ids, fields)  *)
(* as the same segments separated by CR.                                   *)
(***************************************************************************)
\* lines 24-28: the separator the service detects in the stripped text.  No
\* later line reads it: line 31 hands the text itself to hl7.parse.
segment_separator(content) ==
    IF \E i \in 1..(Len(content) - 1) :
          content[i] = "\r" /\ content[i + 1] = "\n"
    THEN CRLF
    ELSE IF Contains(content, LF) /\ ~Contains(content, CR)
    THEN LF
    ELSE CR

\* s.split(sep) for a separator of one or more characters
RECURSIVE SplitStr(_, _)
SplitStr(s, sep) ==
    LET hits == {i \in 1..(Len(s) - Len(sep) + 1) :
                    SubSeq(s, i, i + Len(sep) - 1) = sep}
        i == CHOOSE h \in hits : \A j \in hits : h <= j
    IN  IF hits = {} THEN <<s>>
        ELSE <<SubSeq(s, 1, i - 1)>>
                 \o SplitStr(SubSeq(s, i + Len(sep), Len(s)), sep)

\* the segments of the text, split with the detected separator
DetectedLines == SplitStr(WireText, segment_separator(WireText))

\* the text uses one line-ending style: no CR or LF is left in a segment
C14_Case ==
    /\ ParseReturned
    /\ \A k \in 1..Len(DetectedLines) :
          /\ ~Contains(DetectedLines[k], CR)
          /\ ~Contains(DetectedLines[k], LF)

C14_SameSegmentsAnyLineEnding ==
    C14_Case =>
        LET cr == parse_hl7_message(Join(DetectedLines, CR))
        IN  /\ result.success = cr.success
            /\ result.success =>
                  /\ Len(result.data.segments) = Len(DetectedLines)
                  /\ result.data.segments = cr.data.segments

(***************************************************************************)
(* C15: extract_patient_info leaves its argument unchanged.  Across a call *)
(* from a caller that holds a tokenized message, on the success path and   *)
(* on each failure path, the message after the call equals the message     *)
(* before it.  Across the call in main the wrapper keeps every key it had  *)
(* with the value it had, data included, and gains the one key             *)
(* patientInfo; no other step of the flow changes a returned wrapper.      *)
(***************************************************************************)
C15_ExtractStep ==
    /\ (pc = "built" /\ pc' = "returned") => result' = result
    /\ (pc = "parsed" /\ pc' = "extracted") =>
          /\ DOMAIN result' = DOMAIN result \cup {"patientInfo"}
          /\ "patientInfo" \notin DOMAIN result
          /\ \A k \in DOMAIN result : result'[k] = result[k]
    /\ (pc \in {"parsed", "extracted"} /\ pc' = "done") => result' = result

====
